---- MODULE Spec2Model ----
(***************************************************************************)
(* Service worker of weather-console: src/static/sw.js (v4, current) and   *)
(* src/static/sw_0ld.js (v3, the previous deployment).                     *)
(*                                                                         *)
(* The model follows the two scripts listener by listener.  Every await in *)
(* a listener is a suspension point and ends an action; the code between   *)
(* two awaits is one atomic step (single-threaded event loop).             *)
(*                                                                         *)
(* Host behaviour the scripts rely on (Service Worker / Cache / Fetch):    *)
(*  - a fetch event goes to the activated worker; a handler that returns   *)
(*    without respondWith leaves the request to the browser, which sends   *)
(*    it to the network;                                                   *)
(*  - cache.addAll fetches every URL and stores all of them or none;       *)
(*  - caches.open creates the named cache when it is absent;               *)
(*  - caches.match looks through the caches in creation order;             *)
(*  - a waiting worker whose skip-waiting flag is set is activated once    *)
(*    the active worker has no fetch event in progress;                    *)
(*  - the two versions are deployed one after the other.                   *)
(***************************************************************************)
EXTENDS Integers, Sequences, FiniteSets, TLC

\* ---- bounds of the model ----
MaxTasks == 2      \* requests intercepted in one run

\* ---- the two scripts ----
V3 == "sw_0ld.js"
V4 == "sw.js"
Workers == {V3, V4}

VERSION == "v4-20251224"

CACHE_NAME(w) == IF w = V4 THEN "weather-console-" \o VERSION ELSE "weather-console-v3"

\* a generation left behind by a deployment older than both scripts
LegacyName == "weather-console-v2"

PRECACHE_URLS ==
  << "/ui", "/static/manifest.json", "/static/icons/icon-192.png",
     "/static/icons/icon-512.png", "/static/sw.js" >>

APP_SHELL ==
  << "/ui", "/static/manifest.json", "/static/sw.js",
     "/static/icons/icon-192.png", "/static/icons/icon-512.png" >>

Manifest(w) == IF w = V4 THEN PRECACHE_URLS ELSE APP_SHELL

Range(s) == { s[i] : i \in 1..Len(s) }

\* ---- requests ----
Methods == {"GET", "POST"}
Paths == {"/", "/ui", "/webhook", "/static/icons/icon-192.png", "/static/app.css"}
HtmlAccept == "text/html,application/xhtml+xml,application/xml;q=0.9,*/*;q=0.8"
Accepts == {HtmlAccept, "*/*"}
Modes == {"navigate", "cors"}
\* The page sends its POSTs with fetch(): mode cors, no HTML in Accept.  A
\* GET may carry any pair: a page load is a navigation that asks for HTML, an
\* <embed> or <object> load is a navigation with Accept */*, and a fetch()
\* of the page may set the Accept header itself.
Requests ==
  { r \in [method : Methods, path : Paths, accept : Accepts, mode : Modes] :
      r.method = "POST" => (r.accept = "*/*" /\ r.mode = "cors") }

Keys == Paths \cup Range(PRECACHE_URLS)
Names == {CACHE_NAME(V3), CACHE_NAME(V4), LegacyName}

\* String.prototype.includes / startsWith
Includes(s, sub) ==
  \E i \in 1..(Len(s) - Len(sub) + 1) : SubSeq(s, i, i + Len(sub) - 1) = sub

StartsWith(s, p) == Len(s) >= Len(p) /\ SubSeq(s, 1, Len(p)) = p

\* ---- responses ----
\* type "basic": a response of the origin; every fetch yields a response of
\* its own, identified by the URL and by the fetch that obtained it (by: the
\* number of the request, or a negative number for a precache fetch);
\* type "default": a response the script constructs; type "error": the
\* network error the caller sees when a fetch or respondWith rejects;
\* type "undefined": no response (a cache miss, nothing delivered yet).
Statuses == {200, 500}
OfflineText == "offline: reload once the connection is back"
NetResponse(url, by, status) ==
  [type |-> "basic", status |-> status, url |-> url, by |-> by, text |-> ""]
Undefined == [type |-> "undefined", status |-> 0, url |-> "", by |-> 0, text |-> ""]
NetworkError == [type |-> "error", status |-> 0, url |-> "", by |-> 0, text |-> ""]
Offline503(w) ==
  [type |-> "default", status |-> 503, url |-> "", by |-> 0,
   text |-> IF w = V4 THEN OfflineText ELSE "Offline"]

Ok(r) == r.type = "basic" /\ r.status >= 200 /\ r.status <= 299

VARIABLES
  state,        \* lifecycle state of each script's worker
  skipWaiting,  \* the skip-waiting flag of each worker
  inst,         \* progress of each install handler
  act,          \* progress of each activate handler
  cacheNames,   \* caches.keys(): the generations present, in creation order
  store,        \* store[name][key]: the entry of a generation, or Undefined
  tasks         \* one record per intercepted request

vars == << state, skipWaiting, inst, act, cacheNames, store, tasks >>

TaskIds == 1..MaxTasks

EmptyCache == [k \in Keys |-> Undefined]

\* the outcomes of one network fetch of url: a rejection, or a response
FetchOutcomes(url, by) ==
  {NetworkError} \cup { NetResponse(url, by, s) : s \in Statuses }

\* the fetches of an install handler
PrecacheBy(w) == IF w = V4 THEN -4 ELSE -3

IdleTask ==
  [pc |-> "idle", worker |-> V4, branch |-> "none",
   req |-> [method |-> "GET", path |-> "/", accept |-> "*/*", mode |-> "cors"],
   handled |-> FALSE, net |-> Undefined, fresh |-> Undefined, hit |-> Undefined, resp |-> Undefined,
   put |-> "none", putName |-> "", putKey |-> "",
   nFetch |-> 0, nMatch |-> 0, nOpen |-> 0, nPut |-> 0]

IdleInstall == [pc |-> "none"]
IdleActivate == [pc |-> "none", keys |-> << >>, pending |-> {}]

\* the generation a leftover deployment may have left, with or without /ui
LegacyStores ==
  { EmptyCache, [EmptyCache EXCEPT !["/ui"] = NetResponse("/ui", -2, 200)] }

Init ==
  /\ state = [w \in Workers |-> "parsed"]
  /\ skipWaiting = [w \in Workers |-> FALSE]
  /\ inst = [w \in Workers |-> IdleInstall]
  /\ act = [w \in Workers |-> IdleActivate]
  /\ \E legacy \in BOOLEAN, c \in LegacyStores :
       /\ cacheNames = IF legacy THEN << LegacyName >> ELSE << >>
       /\ store = [n \in Names |-> IF legacy /\ n = LegacyName THEN c ELSE EmptyCache]
       /\ (~legacy => c = EmptyCache)
  /\ tasks = [t \in TaskIds |-> IdleTask]

\* ---- Cache Store API ----
\* caches.open(name): the names after the call
Opened(names, name) == IF name \in Range(names) THEN names ELSE Append(names, name)

\* caches.delete(name): the names after the call
Deleted(names, name) == SelectSeq(names, LAMBDA n : n # name)

\* caches.match(key): the entry of the first generation that holds one
RECURSIVE MatchFrom(_, _)
MatchFrom(names, key) ==
  IF names = << >> THEN Undefined
  ELSE IF store[Head(names)][key] # Undefined THEN store[Head(names)][key]
  ELSE MatchFrom(Tail(names), key)

\* a lookup in the newest generation only, as cache.match on the cache of
\* the current version would do
CachesMatchNewestOnly(key) ==
  IF cacheNames = << >> THEN Undefined ELSE store[cacheNames[Len(cacheNames)]][key]

CachesMatch(key) == MatchFrom(cacheNames, key)

\* ---- install listener ----
\* the worker that currently handles fetch events, if any
Active == { w \in Workers : state[w] = "activated" }

InFlight(w) ==
  { t \in TaskIds : /\ tasks[t].worker = w /\ tasks[t].handled
                    /\ tasks[t].pc \notin {"idle", "done"} }

\* both scripts calling skipWaiting() in the listener itself
SkipsWaitingAtOnceBoth(w) == TRUE

\* sw.js calls skipWaiting() in the listener itself, before the precache
\* promise settles; sw_0ld.js awaits addAll first.
SkipsWaitingAtOnce(w) == w = V4

\* the install event is fired: the listener runs to its first await,
\* caches.open(CACHE_NAME) being called
InstallListener(w) ==
  /\ state[w] = "parsed"
  /\ \/ w = V3 /\ state[V4] = "parsed"
     \/ w = V4 /\ state[V3] \in {"parsed", "activated", "redundant"}
  /\ state' = [state EXCEPT ![w] = "installing"]
  /\ skipWaiting' = [skipWaiting EXCEPT ![w] = SkipsWaitingAtOnce(w)]
  /\ inst' = [inst EXCEPT ![w].pc = "open"]
  /\ UNCHANGED << act, cacheNames, store, tasks >>

\* caches.open(CACHE_NAME) settles; cache.addAll(urls) starts its fetches
InstallOpen(w) ==
  /\ state[w] = "installing" /\ inst[w].pc = "open"
  /\ cacheNames' = Opened(cacheNames, CACHE_NAME(w))
  /\ inst' = [inst EXCEPT ![w].pc = "addAll"]
  /\ UNCHANGED << state, skipWaiting, act, store, tasks >>

\* the precache done URL by URL with cache.add: the first entry is stored
\* before a later fetch fails
AddAllRejectPartial(w) ==
  /\ state[w] = "installing" /\ inst[w].pc = "addAll"
  /\ store' = [store EXCEPT ![CACHE_NAME(w)][Manifest(w)[1]] =
                 NetResponse(Manifest(w)[1], PrecacheBy(w), 200)]
  /\ inst' = [inst EXCEPT ![w].pc = "failed"]
  /\ state' = [state EXCEPT ![w] = "redundant"]
  /\ UNCHANGED << skipWaiting, act, cacheNames, tasks >>

\* cache.addAll rejects: the fetch of one URL of the list was rejected or
\* answered with a status outside 2xx.  Nothing is stored, the promise given
\* to waitUntil rejects and the worker is discarded.
AddAllReject(w) ==
  /\ state[w] = "installing" /\ inst[w].pc = "addAll"
  /\ \E i \in 1..Len(Manifest(w)) :
       \E r \in FetchOutcomes(Manifest(w)[i], PrecacheBy(w)) : ~Ok(r)
  /\ inst' = [inst EXCEPT ![w].pc = "failed"]
  /\ state' = [state EXCEPT ![w] = "redundant"]
  /\ UNCHANGED << skipWaiting, act, cacheNames, store, tasks >>

\* an addAll that stores the first URL of the list only
AddAllStoredFirst(w, c) ==
  [k \in Keys |->
     IF k = Manifest(w)[1] THEN NetResponse(k, PrecacheBy(w), 200) ELSE c[k]]

\* the entries addAll writes once every fetch has succeeded
AddAllStored(w, c) ==
  [k \in Keys |->
     IF k \in Range(Manifest(w)) THEN NetResponse(k, PrecacheBy(w), 200) ELSE c[k]]

\* cache.addAll resolves: every URL was fetched with a 2xx status and all
\* entries are stored in one batch; the promise given to waitUntil settles
\* (sw_0ld.js calls skipWaiting() first) and the worker is installed
AddAllCommit(w) ==
  /\ state[w] = "installing" /\ inst[w].pc = "addAll"
  /\ \A i \in 1..Len(Manifest(w)) :
       \E r \in FetchOutcomes(Manifest(w)[i], PrecacheBy(w)) : Ok(r)
  /\ store' = [store EXCEPT ![CACHE_NAME(w)] = AddAllStored(w, @)]
  /\ inst' = [inst EXCEPT ![w].pc = "done"]
  /\ state' = [state EXCEPT ![w] = "installed"]
  /\ skipWaiting' = [skipWaiting EXCEPT ![w] = TRUE]
  /\ UNCHANGED << act, cacheNames, tasks >>

\* ---- activate listener ----
\* the host activates the waiting worker: the worker it replaces becomes
\* redundant, the activate event is fired and the listener calls caches.keys()
ActivateListener(w) ==
  /\ state[w] = "installed" /\ skipWaiting[w]
  /\ \A v \in Active : InFlight(v) = {}
  /\ state' = [v \in Workers |->
                 IF v = w THEN "activating"
                 ELSE IF v \in Active THEN "redundant" ELSE state[v]]
  /\ act' = [act EXCEPT ![w].pc = "keys"]
  /\ UNCHANGED << skipWaiting, inst, cacheNames, store, tasks >>

\* the comparison of the activate listener inverted
ObsoleteInverted(w, keys) == { k \in Range(keys) : k = CACHE_NAME(w) }

\* the keys a listener deletes
Obsolete(w, keys) == { k \in Range(keys) : k # CACHE_NAME(w) }

\* caches.keys() settles; keys.map(...) calls caches.delete for every other key
ActivateKeys(w) ==
  /\ state[w] = "activating" /\ act[w].pc = "keys"
  /\ act' = [act EXCEPT ![w] = [pc |-> "deleting", keys |-> cacheNames,
                                pending |-> Obsolete(w, cacheNames)]]
  /\ UNCHANGED << state, skipWaiting, inst, cacheNames, store, tasks >>

\* a pending put that goes on writing under the name of a deleted generation
OrphanNone(ts, name) == ts

\* a put that was started on a generation deleted since writes to a cache
\* that no name reaches any more
Orphan(ts, name) ==
  [t \in TaskIds |->
     IF ts[t].put = "pending" /\ ts[t].putName = name
     THEN [ts[t] EXCEPT !.put = "orphaned"] ELSE ts[t]]

\* one caches.delete(k) settles
ActivateDelete(w, k) ==
  /\ state[w] = "activating" /\ act[w].pc = "deleting"
  /\ k \in act[w].pending
  /\ cacheNames' = Deleted(cacheNames, k)
  /\ store' = [store EXCEPT ![k] = EmptyCache]
  /\ tasks' = Orphan(tasks, k)
  /\ act' = [act EXCEPT ![w].pending = @ \ {k}]
  /\ UNCHANGED << state, skipWaiting, inst >>

\* Promise.all settles, clients.claim() is called and settles: the promise
\* given to waitUntil settles and the worker is activated
ActivateClaim(w) ==
  /\ state[w] = "activating" /\ act[w].pc = "deleting"
  /\ act[w].pending = {}
  /\ act' = [act EXCEPT ![w].pc = "done"]
  /\ state' = [state EXCEPT ![w] = "activated"]
  /\ UNCHANGED << skipWaiting, inst, cacheNames, store, tasks >>

\* ---- fetch listener ----
\* sw.js without the method test of line 37
RouteV4NoMethodTest(req) ==
  IF req.path = "/webhook" THEN "forward"
  ELSE IF Includes(req.accept, "text/html") \/ req.path = "/ui" \/ req.path = "/"
       THEN "networkFirst" ELSE "cacheFirst"

\* sw.js without the /webhook test of line 40
RouteV4NoWebhookTest(req) ==
  IF req.method # "GET" THEN "unhandled"
  ELSE IF Includes(req.accept, "text/html") \/ req.path = "/ui" \/ req.path = "/"
       THEN "networkFirst" ELSE "cacheFirst"

\* sw.js with the HTML test placed before the /webhook test
RouteV4HtmlFirst(req) ==
  IF req.method # "GET" THEN "unhandled"
  ELSE IF Includes(req.accept, "text/html") \/ req.path = "/ui" \/ req.path = "/"
       THEN "networkFirst"
  ELSE IF req.path = "/webhook" THEN "forward"
  ELSE "cacheFirst"

\* sw.js without the test for the root path in isHtml
RouteV4NoRootTest(req) ==
  IF req.method # "GET" THEN "unhandled"
  ELSE IF req.path = "/webhook" THEN "forward"
  ELSE IF Includes(req.accept, "text/html") \/ req.path = "/ui"
       THEN "networkFirst" ELSE "cacheFirst"

\* sw.js, the listener up to its first await: the branch taken
RouteV4(req) ==
  IF req.method # "GET" THEN "unhandled"
  ELSE IF req.path = "/webhook" THEN "forward"
  ELSE LET accept == req.accept
           isHtml == Includes(accept, "text/html") \/ req.path = "/ui" \/ req.path = "/"
       IN IF isHtml THEN "networkFirst" ELSE "cacheFirst"

\* sw_0ld.js, the listener up to its first await: the branch taken
RouteV3(req) ==
  IF req.path = "/webhook" THEN "unhandled"
  ELSE IF req.mode = "navigate" THEN "networkFirst"
  ELSE IF StartsWith(req.path, "/static/") THEN "cacheFirst"
  ELSE "unhandled"

Route(w, req) == IF w = V4 THEN RouteV4(req) ELSE RouteV3(req)

\* the literal key of sw_0ld.js kept in sw.js
DocKeyLiteral(w, req) == "/ui"

\* the key the network-first branch stores and looks up: the request in
\* sw.js, the literal "/ui" in sw_0ld.js
DocKey(w, req) == IF w = V4 THEN req.path ELSE "/ui"

\* the key the cache-first branch stores and looks up
AssetKey(w, req) == req.path

\* a fetch event is dispatched to the activated worker; the listener runs to
\* its first await (or returns without respondWith, and the browser fetches)
FetchListener(t, req) ==
  /\ tasks[t].pc = "idle"
  /\ \A u \in TaskIds : u < t => tasks[u].pc # "idle"
  /\ \E w \in Active :
       LET b == Route(w, req) IN
       tasks' = [tasks EXCEPT ![t] =
                   [@ EXCEPT !.worker = w, !.req = req, !.branch = b,
                             !.handled = (b # "unhandled"),
                             !.pc = IF b = "cacheFirst" THEN "match" ELSE "fetch",
                             !.nFetch = IF b = "cacheFirst" THEN 0 ELSE 1,
                             !.nMatch = IF b = "cacheFirst" THEN 1 ELSE 0]]
  /\ UNCHANGED << state, skipWaiting, inst, act, cacheNames, store >>

\* no respondWith: the browser's own fetch settles and the caller gets it
BrowserFetchSettle(t) ==
  /\ tasks[t].pc = "fetch" /\ tasks[t].branch = "unhandled"
  /\ \E r \in FetchOutcomes(tasks[t].req.path, t) :
       tasks' = [tasks EXCEPT ![t] = [@ EXCEPT !.net = r, !.resp = r, !.pc = "done"]]
  /\ UNCHANGED << state, skipWaiting, inst, act, cacheNames, store >>

\* event.respondWith(fetch(req)): the fetch settles and the caller gets it
ForwardFetchSettle(t) ==
  /\ tasks[t].pc = "fetch" /\ tasks[t].branch = "forward"
  /\ \E r \in FetchOutcomes(tasks[t].req.path, t) :
       tasks' = [tasks EXCEPT ![t] = [@ EXCEPT !.net = r, !.resp = r, !.pc = "done"]]
  /\ UNCHANGED << state, skipWaiting, inst, act, cacheNames, store >>

\* network-first with a status test: a response outside 2xx is handled like
\* a rejected fetch
NetworkFirstFetchSettleOkOnly(t) ==
  /\ tasks[t].pc = "fetch" /\ tasks[t].branch = "networkFirst"
  /\ \E r \in FetchOutcomes(tasks[t].req.path, t) :
       tasks' = [tasks EXCEPT ![t] =
                   IF ~Ok(r)
                   THEN [@ EXCEPT !.net = r, !.pc = "match", !.nMatch = @ + 1]
                   ELSE [@ EXCEPT !.net = r, !.fresh = r, !.pc = "open",
                                  !.nOpen = @ + 1]]
  /\ UNCHANGED << state, skipWaiting, inst, act, cacheNames, store >>

\* network-first: await fetch(req) settles; on success caches.open is
\* called, in the catch block caches.match is called
NetworkFirstFetchSettle(t) ==
  /\ tasks[t].pc = "fetch" /\ tasks[t].branch = "networkFirst"
  /\ \E r \in FetchOutcomes(tasks[t].req.path, t) :
       tasks' = [tasks EXCEPT ![t] =
                   IF r = NetworkError
                   THEN [@ EXCEPT !.net = r, !.pc = "match", !.nMatch = @ + 1]
                   ELSE [@ EXCEPT !.net = r, !.fresh = r, !.pc = "open",
                                  !.nOpen = @ + 1]]
  /\ UNCHANGED << state, skipWaiting, inst, act, cacheNames, store >>

\* network-first: await caches.open settles; cache.put is called and not
\* awaited, and fresh is returned to the caller
NetworkFirstOpenSettle(t) ==
  /\ tasks[t].pc = "open" /\ tasks[t].branch = "networkFirst"
  /\ cacheNames' = Opened(cacheNames, CACHE_NAME(tasks[t].worker))
  /\ tasks' = [tasks EXCEPT ![t] =
                 [@ EXCEPT !.put = "pending",
                           !.putName = CACHE_NAME(tasks[t].worker),
                           !.putKey = DocKey(tasks[t].worker, tasks[t].req),
                           !.nPut = @ + 1,
                           !.resp = tasks[t].fresh, !.pc = "done"]]
  /\ UNCHANGED << state, skipWaiting, inst, act, store >>

\* the catch block without the synthetic response: a miss rejects
NetworkFirstMatchSettleNoFallback(t) ==
  /\ tasks[t].pc = "match" /\ tasks[t].branch = "networkFirst"
  /\ LET cached == MatchFrom(cacheNames, tasks[t].req.path) IN
       tasks' = [tasks EXCEPT ![t] =
                   [@ EXCEPT !.hit = cached,
                             !.resp = IF cached # Undefined THEN cached
                                      ELSE NetworkError,
                             !.pc = "done"]]
  /\ UNCHANGED << state, skipWaiting, inst, act, cacheNames, store >>

\* network-first, catch block: await caches.match settles; the cached entry
\* or the synthetic 503 is returned
NetworkFirstMatchSettle(t) ==
  /\ tasks[t].pc = "match" /\ tasks[t].branch = "networkFirst"
  /\ LET cached == CachesMatch(DocKey(tasks[t].worker, tasks[t].req)) IN
       tasks' = [tasks EXCEPT ![t] =
                   [@ EXCEPT !.hit = cached,
                             !.resp = IF cached # Undefined THEN cached
                                      ELSE Offline503(tasks[t].worker),
                             !.pc = "done"]]
  /\ UNCHANGED << state, skipWaiting, inst, act, cacheNames, store >>

\* caches.match(req) finds nothing for a request that is not a GET
MatchRequest(req, key) == IF req.method = "GET" THEN CachesMatch(key) ELSE Undefined

\* cache-first without the early return of a hit: the network is always asked
CacheFirstMatchSettleAlwaysFetch(t) ==
  /\ tasks[t].pc = "match" /\ tasks[t].branch = "cacheFirst"
  /\ tasks' = [tasks EXCEPT ![t] = [@ EXCEPT !.pc = "fetch", !.nFetch = @ + 1]]
  /\ UNCHANGED << state, skipWaiting, inst, act, cacheNames, store >>

\* cache-first: await caches.match settles; a hit is returned, on a miss
\* fetch(req) is called
CacheFirstMatchSettle(t) ==
  /\ tasks[t].pc = "match" /\ tasks[t].branch = "cacheFirst"
  /\ LET cached == MatchRequest(tasks[t].req, AssetKey(tasks[t].worker, tasks[t].req)) IN
       tasks' = [tasks EXCEPT ![t] =
                   IF cached # Undefined
                   THEN [@ EXCEPT !.hit = cached, !.resp = cached, !.pc = "done"]
                   ELSE [@ EXCEPT !.pc = "fetch", !.nFetch = @ + 1]]
  /\ UNCHANGED << state, skipWaiting, inst, act, cacheNames, store >>

\* cache-first with the catch block of the network-first branch copied in
CacheFirstFetchSettleFallback(t) ==
  /\ tasks[t].pc = "fetch" /\ tasks[t].branch = "cacheFirst"
  /\ \E r \in {NetworkError} \cup { NetResponse(tasks[t].req.path, t, c) : c \in Statuses } :
       tasks' = [tasks EXCEPT ![t] =
                   IF r = NetworkError
                   THEN [@ EXCEPT !.net = r, !.resp = Offline503(tasks[t].worker),
                                  !.pc = "done"]
                   ELSE [@ EXCEPT !.net = r, !.fresh = r, !.pc = "open",
                                  !.nOpen = @ + 1]]
  /\ UNCHANGED << state, skipWaiting, inst, act, cacheNames, store >>

\* cache-first with one retry of a rejected fetch
CacheFirstFetchSettleRetry(t) ==
  /\ tasks[t].pc = "fetch" /\ tasks[t].branch = "cacheFirst"
  /\ \E r \in FetchOutcomes(tasks[t].req.path, t) :
       tasks' = [tasks EXCEPT ![t] =
                   IF r = NetworkError /\ tasks[t].nFetch < 2
                   THEN [@ EXCEPT !.nFetch = @ + 1]
                   ELSE IF r = NetworkError
                   THEN [@ EXCEPT !.net = r, !.resp = NetworkError, !.pc = "done"]
                   ELSE [@ EXCEPT !.net = r, !.fresh = r, !.pc = "open",
                                  !.nOpen = @ + 1]]
  /\ UNCHANGED << state, skipWaiting, inst, act, cacheNames, store >>

\* cache-first: await fetch(req) settles; a rejection rejects the promise
\* given to respondWith, on success caches.open is called
CacheFirstFetchSettle(t) ==
  /\ tasks[t].pc = "fetch" /\ tasks[t].branch = "cacheFirst"
  /\ \E r \in FetchOutcomes(tasks[t].req.path, t) :
       tasks' = [tasks EXCEPT ![t] =
                   IF r = NetworkError
                   THEN [@ EXCEPT !.net = r, !.resp = NetworkError, !.pc = "done"]
                   ELSE [@ EXCEPT !.net = r, !.fresh = r, !.pc = "open",
                                  !.nOpen = @ + 1]]
  /\ UNCHANGED << state, skipWaiting, inst, act, cacheNames, store >>

\* cache-first: await caches.open settles; cache.put is called and not
\* awaited (it rejects for a request that is not a GET), fresh is returned
CacheFirstOpenSettle(t) ==
  /\ tasks[t].pc = "open" /\ tasks[t].branch = "cacheFirst"
  /\ cacheNames' = Opened(cacheNames, CACHE_NAME(tasks[t].worker))
  /\ tasks' = [tasks EXCEPT ![t] =
                 [@ EXCEPT !.put = IF tasks[t].req.method = "GET"
                                   THEN "pending" ELSE "rejected",
                           !.putName = CACHE_NAME(tasks[t].worker),
                           !.putKey = AssetKey(tasks[t].worker, tasks[t].req),
                           !.nPut = @ + 1,
                           !.resp = tasks[t].fresh, !.pc = "done"]]
  /\ UNCHANGED << state, skipWaiting, inst, act, store >>

\* a put that leaves an entry already stored under the key in place
PutSettleKeepsFirst(t) ==
  /\ tasks[t].put = "pending"
  /\ store' = [store EXCEPT ![tasks[t].putName][tasks[t].putKey] =
                 IF @ # Undefined THEN @ ELSE tasks[t].fresh]
  /\ tasks' = [tasks EXCEPT ![t].put = "stored"]
  /\ UNCHANGED << state, skipWaiting, inst, act, cacheNames >>

\* a cache.put that was started settles: the entry replaces the one stored
\* under the same key
PutSettle(t) ==
  /\ tasks[t].put = "pending"
  /\ store' = [store EXCEPT ![tasks[t].putName][tasks[t].putKey] = tasks[t].fresh]
  /\ tasks' = [tasks EXCEPT ![t].put = "stored"]
  /\ UNCHANGED << state, skipWaiting, inst, act, cacheNames >>

Lifecycle ==
  \E w \in Workers :
    \/ InstallListener(w)
    \/ InstallOpen(w)
    \/ AddAllReject(w)
    \/ AddAllCommit(w)
    \/ ActivateListener(w)
    \/ ActivateKeys(w)
    \/ \E k \in Names : ActivateDelete(w, k)
    \/ ActivateClaim(w)

Handling ==
  \E t \in TaskIds :
    \/ \E req \in Requests : FetchListener(t, req)
    \/ BrowserFetchSettle(t)
    \/ ForwardFetchSettle(t)
    \/ NetworkFirstFetchSettle(t)
    \/ NetworkFirstOpenSettle(t)
    \/ NetworkFirstMatchSettle(t)
    \/ CacheFirstMatchSettle(t)
    \/ CacheFirstFetchSettle(t)
    \/ CacheFirstOpenSettle(t)
    \/ PutSettle(t)

Next == Lifecycle \/ Handling

Spec == Init /\ [][Next]_vars

\* ---- failures of the Cache Store ----
\* The Cache Store calls of the scripts return promises that may reject
\* (quota exceeded, storage unavailable).  The actions below are the steps
\* the listeners take on such a rejection.  Spec has every call succeed;
\* SpecWriteFailures lets caches.open and cache.put fail as well, and
\* SpecDeleteFailures lets caches.delete fail as well.

\* install: caches.open(CACHE_NAME) rejects; the promise given to waitUntil
\* rejects and the worker is discarded
InstallOpenReject(w) ==
  /\ state[w] = "installing" /\ inst[w].pc = "open"
  /\ inst' = [inst EXCEPT ![w].pc = "failed"]
  /\ state' = [state EXCEPT ![w] = "redundant"]
  /\ UNCHANGED << skipWaiting, act, cacheNames, store, tasks >>

\* activate: one caches.delete(k) rejects; Promise.all rejects with it, the
\* listener's function rejects before clients.claim() and the promise given
\* to waitUntil settles: the host makes the worker activated all the same.
\* The generation k stays; the other deletes already called go on.
ActivateDeleteReject(w, k) ==
  /\ state[w] \in {"activating", "activated"}
  /\ act[w].pc \in {"deleting", "rejected"}
  /\ k \in act[w].pending
  /\ act' = [act EXCEPT ![w].pc = "rejected", ![w].pending = @ \ {k}]
  /\ state' = [state EXCEPT ![w] = "activated"]
  /\ UNCHANGED << skipWaiting, inst, cacheNames, store, tasks >>

\* activate: a caches.delete(k) called before Promise.all rejected settles
ActivateDeleteLate(w, k) ==
  /\ state[w] = "activated" /\ act[w].pc = "rejected"
  /\ k \in act[w].pending
  /\ cacheNames' = Deleted(cacheNames, k)
  /\ store' = [store EXCEPT ![k] = EmptyCache]
  /\ tasks' = Orphan(tasks, k)
  /\ act' = [act EXCEPT ![w].pending = @ \ {k}]
  /\ UNCHANGED << state, skipWaiting, inst >>

\* network-first: await caches.open rejects inside the try block; the catch
\* block runs and caches.match is called
NetworkFirstOpenReject(t) ==
  /\ tasks[t].pc = "open" /\ tasks[t].branch = "networkFirst"
  /\ tasks' = [tasks EXCEPT ![t] = [@ EXCEPT !.pc = "match", !.nMatch = @ + 1]]
  /\ UNCHANGED << state, skipWaiting, inst, act, cacheNames, store >>

\* cache-first: await caches.open rejects; nothing catches it and the
\* promise given to respondWith rejects
CacheFirstOpenReject(t) ==
  /\ tasks[t].pc = "open" /\ tasks[t].branch = "cacheFirst"
  /\ tasks' = [tasks EXCEPT ![t] = [@ EXCEPT !.resp = NetworkError, !.pc = "done"]]
  /\ UNCHANGED << state, skipWaiting, inst, act, cacheNames, store >>

\* a cache.put that was started rejects: nothing is stored, and nothing
\* observes the rejection
PutReject(t) ==
  /\ tasks[t].put = "pending"
  /\ tasks' = [tasks EXCEPT ![t].put = "rejected"]
  /\ UNCHANGED << state, skipWaiting, inst, act, cacheNames, store >>

\* the failures of the calls that write: caches.open and cache.put
WriteFailures ==
  \/ \E w \in Workers : InstallOpenReject(w)
  \/ \E t \in TaskIds :
       \/ NetworkFirstOpenReject(t)
       \/ CacheFirstOpenReject(t)
       \/ PutReject(t)

NextWriteFailures == Next \/ WriteFailures

SpecWriteFailures == Init /\ [][NextWriteFailures]_vars

\* the failures of caches.delete
DeleteFailures ==
  \E w \in Workers :
    \/ \E k \in Names : ActivateDeleteReject(w, k)
    \/ \E k \in Names : ActivateDeleteLate(w, k)

NextDeleteFailures == Next \/ DeleteFailures

SpecDeleteFailures == Init /\ [][NextDeleteFailures]_vars

\* ---- properties ----
NonGet(r) == r.pc # "idle" /\ r.worker = V4 /\ r.req.method # "GET"

\* C1: a request of sw.js whose method is not GET makes no Cache Store call
\* (open, match, put), no step of its handling changes the cache contents,
\* and the caller gets the outcome of the network itself: on a network
\* failure the failure, never a cached entry or the synthetic 503.
NonGetBypassesCache ==
  [][\A t \in TaskIds :
       NonGet(tasks'[t]) =>
         /\ tasks'[t].nOpen = 0 /\ tasks'[t].nMatch = 0 /\ tasks'[t].nPut = 0
         /\ tasks'[t].put = "none"
         /\ tasks'[t] # tasks[t] => (cacheNames' = cacheNames /\ store' = store)
         /\ tasks'[t].pc = "done" =>
              /\ tasks'[t].resp = tasks'[t].net
              /\ tasks'[t].net \in FetchOutcomes(tasks'[t].req.path, t)]_vars

\* a POST /webhook of sw.js met a network failure while the cache held entries
NonGetFailureReached ==
  \E t \in TaskIds :
    /\ NonGet(tasks[t]) /\ tasks[t].req.path = "/webhook" /\ tasks[t].pc = "done"
    /\ tasks[t].net = NetworkError /\ tasks[t].resp = NetworkError
    /\ store[CACHE_NAME(V4)]["/ui"] # Undefined

OnWebhook(r) == r.pc # "idle" /\ r.req.path = "/webhook"

\* C2: a request for /webhook, whatever its method and headers and whichever
\* script handles it, makes no Cache Store call, changes no cache contents,
\* and its caller gets exactly the outcome of the network fetch.
WebhookPassesThrough ==
  [][\A t \in TaskIds :
       OnWebhook(tasks'[t]) =>
         /\ tasks'[t].nOpen = 0 /\ tasks'[t].nMatch = 0 /\ tasks'[t].nPut = 0
         /\ tasks'[t].put = "none" /\ tasks'[t].nFetch = 1
         /\ tasks'[t] # tasks[t] => (cacheNames' = cacheNames /\ store' = store)
         /\ tasks'[t].pc = "done" =>
              /\ tasks'[t].resp = tasks'[t].net
              /\ tasks'[t].net \in FetchOutcomes("/webhook", t)]_vars

\* a GET /webhook that asks for HTML was answered by the network under sw.js
WebhookGetReached ==
  \E t \in TaskIds :
    /\ OnWebhook(tasks[t]) /\ tasks[t].worker = V4 /\ tasks[t].pc = "done"
    /\ tasks[t].req.method = "GET" /\ tasks[t].req.accept = HtmlAccept
    /\ tasks[t].resp = NetResponse("/webhook", t, 200)

\* C3: when the activation of a version completes, the generations present
\* are exactly that version's one, whatever generations were there before.
ActivationLeavesOneGeneration ==
  [][\A w \in Workers :
       (state[w] = "activating" /\ state'[w] = "activated") =>
         cacheNames' = << CACHE_NAME(w) >>]_vars

\* sw.js was activated after finding two generations and left only its own
ActivationDeletedReached ==
  /\ state[V4] = "activated" /\ act[V4].pc = "done"
  /\ Len(act[V4].keys) = 2
  /\ cacheNames = << CACHE_NAME(V4) >>

\* C4: when a fetch of the manifest fails during install, the install fails
\* as a whole: the failing step stores nothing and changes no other worker,
\* no manifest entry is in the version's own generation, the worker stays
\* redundant, and the previous version keeps its status and its entries.
InstallFailureIsAtomic ==
  [][\A w \in Workers :
       /\ (state[w] = "installing" /\ state'[w] = "redundant") =>
            /\ inst'[w].pc = "failed"
            /\ store' = store /\ cacheNames' = cacheNames
            /\ \A v \in Workers \ {w} : state'[v] = state[v]
       /\ inst'[w].pc = "failed" =>
            /\ state'[w] = "redundant"
            /\ \A k \in Range(Manifest(w)) : store'[CACHE_NAME(w)][k] = Undefined
       /\ inst[w].pc = "failed" => inst'[w].pc = "failed"]_vars

\* the install of sw.js failed while sw_0ld.js was active with its shell cached
InstallFailureReached ==
  /\ inst[V4].pc = "failed" /\ state[V4] = "redundant"
  /\ state[V3] = "activated"
  /\ \A k \in Range(APP_SHELL) : store[CACHE_NAME(V3)][k] # Undefined

AssetGet(r) == r.pc # "idle" /\ r.branch = "cacheFirst" /\ r.req.method = "GET"

\* C5: an asset request whose identity is cached is answered with the cached
\* entry and makes no network fetch and no store write; one that misses makes
\* exactly one network fetch and, when the fetch succeeds, one store write,
\* and returns what it fetched.
CachedAssetNeverFetches ==
  [][\A t \in TaskIds :
       /\ (AssetGet(tasks[t]) /\ tasks[t].pc = "match" /\ tasks'[t].pc # "match") =>
            LET e == CachesMatch(tasks[t].req.path) IN
              /\ e # Undefined =>
                   /\ tasks'[t].pc = "done" /\ tasks'[t].resp = e
                   /\ tasks'[t].nFetch = 0 /\ tasks'[t].nPut = 0 /\ tasks'[t].nOpen = 0
              /\ e = Undefined => (tasks'[t].pc = "fetch" /\ tasks'[t].nFetch = 1)
       /\ (AssetGet(tasks'[t]) /\ tasks'[t].pc = "done") =>
            /\ tasks'[t].nFetch <= 1 /\ tasks'[t].nMatch = 1
            /\ tasks'[t].hit # Undefined =>
                 (tasks'[t].nFetch = 0 /\ tasks'[t].resp = tasks'[t].hit)
            /\ (tasks'[t].hit = Undefined /\ tasks'[t].net # NetworkError) =>
                 /\ tasks'[t].nFetch = 1 /\ tasks'[t].nPut = 1
                 /\ tasks'[t].putKey = tasks'[t].req.path
                 /\ tasks'[t].resp = tasks'[t].net]_vars

\* /static/app.css was requested twice: the first request fetched and stored
\* it, the second one got the same response without a fetch
AssetTwiceReached ==
  /\ \A t \in {1, 2} :
       /\ AssetGet(tasks[t]) /\ tasks[t].pc = "done" /\ tasks[t].worker = V4
       /\ tasks[t].req.path = "/static/app.css"
  /\ tasks[1].nFetch = 1 /\ tasks[1].nPut = 1 /\ tasks[1].put = "stored"
  /\ tasks[2].nFetch = 0 /\ tasks[2].resp = tasks[1].resp

DocumentV4(r) == r.pc # "idle" /\ r.worker = V4 /\ r.branch = "networkFirst"

\* C6: a document request of sw.js whose network fetch succeeds returns the
\* fresh response of that fetch and starts one put of it into the current
\* version's generation under the request's own identity; when the put
\* settles, that generation holds the same response under that identity.
NetworkFirstRoundTrip ==
  [][\A t \in TaskIds :
       (DocumentV4(tasks'[t]) /\ tasks'[t].net.type = "basic") =>
         /\ tasks'[t].pc = "done" =>
              /\ tasks'[t].resp = tasks'[t].net
              /\ tasks'[t].net \in FetchOutcomes(tasks'[t].req.path, t)
              /\ tasks'[t].put \in {"pending", "stored"} /\ tasks'[t].nPut = 1
              /\ tasks'[t].putName = CACHE_NAME(V4)
         /\ (tasks[t].put = "pending" /\ tasks'[t].put = "stored") =>
              /\ store'[CACHE_NAME(V4)][tasks'[t].req.path] = tasks'[t].resp
              /\ CACHE_NAME(V4) \in Range(cacheNames')]_vars

\* GET / was answered by the network and is now stored under /
DocumentStoredReached ==
  \E t \in TaskIds :
    /\ DocumentV4(tasks[t]) /\ tasks[t].pc = "done" /\ tasks[t].put = "stored"
    /\ tasks[t].req.path = "/"
    /\ tasks[t].resp = NetResponse("/", t, 200)
    /\ store[CACHE_NAME(V4)]["/"] = tasks[t].resp

\* C7: a document request of sw.js whose network fetch fails is answered
\* with the entry stored under the request's identity when there is one, and
\* otherwise with a synthetic response of status 503 and a non-empty text
\* body; the caller never gets the failure.
OfflineDocumentFallsBack ==
  [][\A t \in TaskIds :
       /\ (DocumentV4(tasks[t]) /\ tasks[t].pc = "match" /\ tasks'[t].pc # "match") =>
            LET e == CachesMatch(tasks[t].req.path) IN
              /\ tasks'[t].pc = "done"
              /\ e # Undefined => tasks'[t].resp = e
              /\ e = Undefined =>
                   /\ tasks'[t].resp.type = "default" /\ tasks'[t].resp.status = 503
                   /\ Len(tasks'[t].resp.text) > 0
       /\ (DocumentV4(tasks'[t]) /\ tasks'[t].net = NetworkError) =>
            /\ tasks'[t].pc \in {"match", "done"}
            /\ tasks'[t].resp.type # "error"
            /\ tasks'[t].nPut = 0]_vars

\* offline, GET / got the 503 and GET /ui got the stored document
OfflineBothReached ==
  \E t, u \in TaskIds :
    /\ DocumentV4(tasks[t]) /\ tasks[t].pc = "done" /\ tasks[t].net = NetworkError
    /\ tasks[t].req.path = "/" /\ tasks[t].resp = Offline503(V4)
    /\ DocumentV4(tasks[u]) /\ tasks[u].pc = "done" /\ tasks[u].net = NetworkError
    /\ tasks[u].req.path = "/ui"
    /\ tasks[u].resp = NetResponse("/ui", PrecacheBy(V4), 200)

\* the policy class of a branch of the listener
PolicyClass(b) ==
  IF b \in {"unhandled", "forward"} THEN "Passthrough"
  ELSE IF b = "networkFirst" THEN "Document" ELSE "Asset"

\* C8: sw.js puts every request in exactly one class, a request that is not
\* a GET and a GET for /webhook (also when it asks for HTML) in Passthrough,
\* so that Document and Asset hold only GETs for other paths; the step that
\* classifies changes no cache contents and starts nothing but the first
\* operation of the chosen strategy.
RouterPrecedence ==
  [][\A t \in TaskIds :
       (tasks[t].pc = "idle" /\ tasks'[t].pc # "idle" /\ tasks'[t].worker = V4) =>
         LET r == tasks'[t].req
             c == PolicyClass(tasks'[t].branch)
         IN /\ tasks'[t].branch \in {"unhandled", "forward", "networkFirst", "cacheFirst"}
            /\ r.method # "GET" => c = "Passthrough"
            /\ r.path = "/webhook" => c = "Passthrough"
            /\ c \in {"Document", "Asset"} => (r.method = "GET" /\ r.path # "/webhook")
            /\ (r.method = "GET" /\ r.path # "/webhook") => c \in {"Document", "Asset"}
            /\ store' = store /\ cacheNames' = cacheNames
            /\ tasks'[t].nOpen = 0 /\ tasks'[t].nPut = 0
            /\ tasks'[t].nFetch = (IF c = "Asset" THEN 0 ELSE 1)
            /\ tasks'[t].nMatch = (IF c = "Asset" THEN 1 ELSE 0)
            /\ tasks'[t].resp = Undefined]_vars

\* a GET /webhook that asks for HTML was classified Passthrough by sw.js
WebhookHtmlClassifiedReached ==
  \E t \in TaskIds :
    /\ tasks[t].pc = "fetch" /\ tasks[t].worker = V4
    /\ tasks[t].req.method = "GET" /\ tasks[t].req.path = "/webhook"
    /\ tasks[t].req.accept = HtmlAccept
    /\ PolicyClass(tasks[t].branch) = "Passthrough"

GetOffWebhook(r) == r.pc # "idle" /\ r.req.method = "GET" /\ r.req.path # "/webhook"

\* C9 as stated: under sw.js each of the navigation flag, an Accept header
\* with HTML and the path / or /ui is enough for the network-first strategy.
NavigationAloneIsDocument ==
  \A t \in TaskIds :
    (/\ GetOffWebhook(tasks[t]) /\ tasks[t].worker = V4
     /\ \/ tasks[t].req.mode = "navigate"
        \/ Includes(tasks[t].req.accept, "text/html")
        \/ tasks[t].req.path \in {"/", "/ui"})
    => tasks[t].branch = "networkFirst"

\* C9 amended: sw.js handles a GET off /webhook network-first exactly when
\* its Accept header has HTML or its path is / or /ui, each of the two being
\* enough and the navigation flag playing no part; sw_0ld.js handles it
\* network-first when it is a navigation request.
HtmlOrRootIsDocument ==
  \A t \in TaskIds :
    GetOffWebhook(tasks[t]) =>
      /\ tasks[t].worker = V4 =>
           (tasks[t].branch = "networkFirst" <=>
              \/ Includes(tasks[t].req.accept, "text/html")
              \/ tasks[t].req.path \in {"/", "/ui"})
      /\ tasks[t].worker = V4 => tasks[t].branch \in {"networkFirst", "cacheFirst"}
      /\ (tasks[t].worker = V3 /\ tasks[t].req.mode = "navigate") =>
           tasks[t].branch = "networkFirst"

\* sw.js took the network-first branch once for the path alone and once for
\* the Accept header alone
EachAloneReached ==
  \E t, u \in TaskIds :
    /\ GetOffWebhook(tasks[t]) /\ tasks[t].worker = V4
    /\ tasks[t].req = [method |-> "GET", path |-> "/", accept |-> "*/*", mode |-> "cors"]
    /\ tasks[t].branch = "networkFirst"
    /\ GetOffWebhook(tasks[u]) /\ tasks[u].worker = V4
    /\ tasks[u].req = [method |-> "GET", path |-> "/static/app.css",
                       accept |-> HtmlAccept, mode |-> "cors"]
    /\ tasks[u].branch = "networkFirst"

\* C10: an asset request that misses the cache and whose network fetch fails
\* rejects with that failure: the caller gets the network error, no response
\* is made up, no cache is opened, nothing is put and no contents change.
AssetFailurePropagates ==
  [][\A t \in TaskIds :
       /\ (tasks[t].branch = "cacheFirst" /\ tasks[t].pc = "fetch"
           /\ tasks'[t].net = NetworkError) =>
            /\ tasks'[t].pc = "done"
            /\ store' = store /\ cacheNames' = cacheNames
       /\ (tasks'[t].branch = "cacheFirst" /\ tasks'[t].pc = "done"
           /\ tasks'[t].net = NetworkError) =>
            /\ tasks'[t].hit = Undefined
            /\ tasks'[t].resp = NetworkError
            /\ tasks'[t].nOpen = 0 /\ tasks'[t].nPut = 0 /\ tasks'[t].put = "none"]_vars

\* /static/app.css missed the cache under sw.js and the network failed
AssetFailureReached ==
  \E t \in TaskIds :
    /\ AssetGet(tasks[t]) /\ tasks[t].worker = V4 /\ tasks[t].pc = "done"
    /\ tasks[t].req.path = "/static/app.css"
    /\ tasks[t].hit = Undefined /\ tasks[t].net = NetworkError
    /\ tasks[t].resp = NetworkError

\* C11 as stated: every intercepted request that was answered made exactly
\* one network attempt and at most one cache lookup.
ExactlyOneNetworkAttempt ==
  \A t \in TaskIds :
    tasks[t].pc = "done" => (tasks[t].nFetch = 1 /\ tasks[t].nMatch <= 1)

\* C11 amended: a request makes at most one network attempt and at most one
\* cache lookup at any time, hence no retry; once answered it has made
\* exactly one network attempt, except a cache-first request answered from
\* the cache, which has made none.
AtMostOneAttemptEach ==
  \A t \in TaskIds :
    /\ tasks[t].nFetch \in {0, 1} /\ tasks[t].nMatch \in {0, 1}
    /\ tasks[t].pc = "done" =>
         (tasks[t].nFetch = 0 <=>
            (tasks[t].branch = "cacheFirst" /\ tasks[t].hit # Undefined))
    /\ (tasks[t].pc = "done" /\ tasks[t].net = NetworkError) =>
         tasks[t].nFetch = 1

\* one asset was answered from the cache without a fetch while another one
\* missed the cache, met a network failure after one fetch and was not retried
HitAndFailureReached ==
  \E t, u \in TaskIds :
    /\ AssetGet(tasks[t]) /\ tasks[t].pc = "done" /\ tasks[t].hit # Undefined
    /\ tasks[t].nFetch = 0 /\ tasks[t].nMatch = 1
    /\ AssetGet(tasks[u]) /\ tasks[u].pc = "done" /\ tasks[u].net = NetworkError
    /\ tasks[u].nFetch = 1 /\ tasks[u].nMatch = 1

\* a write path that failed: the put rejected, or caches.open rejected
\* before the put was called
WriteFailed(r) ==
  \/ r.put = "rejected"
  \/ r.nOpen = 1 /\ r.nPut = 0 /\ r.pc # "open"

\* C12: when the network fetch of a document or asset request succeeded and
\* a Cache Store operation of its write path (the open or the put) failed,
\* the caller still gets the fresh response of that fetch.
WriteFailureKeepsFresh ==
  \A t \in TaskIds :
    (/\ tasks[t].branch \in {"networkFirst", "cacheFirst"}
     /\ tasks[t].pc = "done" /\ tasks[t].net.type = "basic"
     /\ WriteFailed(tasks[t]))
    => tasks[t].resp = tasks[t].net

\* C13 as stated: the skip-waiting signal of a version has been given only
\* when its precache has completed, never while it is pending or failed.
SkipWaitingOnlyAfterPrecache ==
  \A w \in Workers : skipWaiting[w] => inst[w].pc = "done"

\* C13 amended: sw.js gives the skip-waiting signal as soon as its install
\* listener runs, whatever becomes of the precache, and sw_0ld.js gives it
\* exactly when its precache has completed; for both, the signal takes
\* effect only at install completion: a version starts activating only with
\* the flag set and every URL of its manifest stored, and a version whose
\* precache failed is discarded and never activated.
SkipWaitingActsAtInstallCompletion ==
  [][\A w \in Workers :
       /\ skipWaiting'[V4] <=> state'[V4] # "parsed"
       /\ skipWaiting'[V3] <=> inst'[V3].pc = "done"
       /\ (state[w] = "installed" /\ state'[w] = "activating") =>
            /\ skipWaiting[w] /\ inst[w].pc = "done"
            /\ \A k \in Range(Manifest(w)) :
                 store[CACHE_NAME(w)][k] = NetResponse(k, PrecacheBy(w), 200)
       /\ state'[w] \in {"activating", "activated"} => inst'[w].pc = "done"
       /\ inst'[w].pc = "failed" => state'[w] = "redundant"]_vars

\* sw.js had given the signal and its precache failed, while sw_0ld.js, which
\* gave it after its precache, is the activated version
SignalBeforeFailureReached ==
  /\ skipWaiting[V4] /\ inst[V4].pc = "failed" /\ state[V4] = "redundant"
  /\ skipWaiting[V3] /\ inst[V3].pc = "done" /\ state[V3] = "activated"

\* the generation of w holds the precached response of every URL of its manifest
Precached(w, names, st) ==
  /\ CACHE_NAME(w) \in Range(names)
  /\ \A k \in Range(Manifest(w)) :
       st[CACHE_NAME(w)][k] = NetResponse(k, PrecacheBy(w), 200)

\* C14: from the step that completes the install of a version, and as long
\* as the version waits or activates, its generation holds the precached
\* response of every URL of its manifest; the generation still holds an
\* entry for each of them when the version is activated and whenever a
\* request is dispatched to it.
PrecacheCompleteBeforeCurrent ==
  [][\A w \in Workers :
       /\ state'[w] \in {"installed", "activating"} => Precached(w, cacheNames', store')
       /\ state'[w] = "activated" =>
            /\ CACHE_NAME(w) \in Range(cacheNames')
            /\ \A k \in Range(Manifest(w)) : store'[CACHE_NAME(w)][k] # Undefined
       /\ \A t \in TaskIds :
            (tasks[t].pc = "idle" /\ tasks'[t].pc # "idle" /\ tasks'[t].worker = w) =>
              /\ state[w] = "activated" /\ inst[w].pc = "done"
              /\ \A k \in Range(Manifest(w)) : store[CACHE_NAME(w)][k] # Undefined]_vars

\* sw.js is installed and waits, its five URLs stored, while sw_0ld.js is
\* still the activated version and sw.js has handled no request
InstalledWithPrecacheReached ==
  /\ state[V4] = "installed" /\ state[V3] = "activated"
  /\ Precached(V4, cacheNames, store)
  /\ Range(Manifest(V4)) =
       {"/ui", "/static/manifest.json", "/static/icons/icon-192.png",
        "/static/icons/icon-512.png", "/static/sw.js"}
  /\ \A t \in TaskIds : tasks[t].pc # "idle" => tasks[t].worker = V3

\* C15: a cache put started by a request's handler is pending only while the
\* event of that request is still extended (the promise given to respondWith
\* or to waitUntil has not settled), so that the host cannot stop the worker
\* under a pending put.
PendingPutKeepsEventAlive ==
  \A t \in TaskIds :
    tasks[t].put = "pending" => t \in InFlight(tasks[t].worker)

\* C16: a document request whose network fetch has succeeded is answered
\* without waiting for a Cache Store operation of the write path: in no
\* state is the fresh response in hand and not yet delivered while such an
\* operation is awaited.
FreshReturnedWithoutWaiting ==
  \A t \in TaskIds :
    (tasks[t].branch = "networkFirst" /\ tasks[t].fresh # Undefined) =>
      tasks[t].pc = "done"

\* an asset request that missed the cache and whose network fetch succeeded
AssetFetched(r) ==
  AssetGet(r) /\ r.pc = "done" /\ r.hit = Undefined /\ r.net.type = "basic"

\* C17: an asset request that missed the cache is answered with the response
\* of its own network fetch, whatever another request for the same URL does
\* meanwhile; each put that completes leaves under its key exactly the
\* response it was given and changes no other entry, so that after two puts
\* of the same key the entry is the response of the put that completed last.
ConcurrentAssetsLastPutWins ==
  [][\A t \in TaskIds :
       /\ AssetFetched(tasks'[t]) =>
            /\ tasks'[t].resp = tasks'[t].net
            /\ tasks'[t].net.by = t /\ tasks'[t].net.url = tasks'[t].req.path
            /\ tasks'[t].nFetch = 1 /\ tasks'[t].nPut = 1
       /\ (AssetGet(tasks[t]) /\ tasks[t].put = "pending" /\ tasks'[t].put = "stored") =>
            /\ store'[tasks[t].putName][tasks[t].putKey] = tasks[t].resp
            /\ \A n \in Names, k \in Keys :
                 (n # tasks[t].putName \/ k # tasks[t].putKey) =>
                   store'[n][k] = store[n][k]
            /\ \A u \in TaskIds \ {t} : tasks'[u] = tasks[u]]_vars

\* two requests for /static/app.css both missed the cache and both fetched
\* and stored; the entry is the response of the first request, whose put
\* completed after the put of the second one
BothStoredReached ==
  /\ \A t \in {1, 2} :
       /\ AssetFetched(tasks[t]) /\ tasks[t].worker = V4
       /\ tasks[t].req.path = "/static/app.css"
       /\ tasks[t].put = "stored" /\ tasks[t].resp.by = t
  /\ store[CACHE_NAME(V4)]["/static/app.css"] = tasks[1].resp
  /\ tasks[1].resp # tasks[2].resp

\* C18 as stated: in every state in which a version is activated, its
\* generation is the only one that exists.
OnlyOwnGenerationOnceActivated ==
  \A w \in Workers : state[w] = "activated" => cacheNames = << CACHE_NAME(w) >>

\* C18 amended: while a version is activated its generation exists, and it
\* is the only one until the install of the next version has created that
\* version's generation beside it; requests do not change this: when the
\* next version activates, no request of the previous one is in progress,
\* and a put of the previous version that is pending when its generation is
\* deleted does not bring the generation back, under its name nothing is
\* stored any more.
OwnGenerationUntilNextInstall ==
  /\ state[V4] = "activated" => cacheNames = << CACHE_NAME(V4) >>
  /\ state[V3] = "activated" =>
       cacheNames = IF inst[V4].pc \in {"none", "open"}
                    THEN << CACHE_NAME(V3) >>
                    ELSE << CACHE_NAME(V3), CACHE_NAME(V4) >>
  /\ state[V4] \in {"activating", "activated"} => InFlight(V3) = {}
  /\ \A n \in Names : n \notin Range(cacheNames) => store[n] = EmptyCache
  /\ \A t \in TaskIds :
       tasks[t].put = "orphaned" => tasks[t].putName \notin Range(cacheNames)

\* sw.js is activated and only its generation exists, although a put of a
\* request handled by sw_0ld.js was still pending when sw.js deleted the
\* generation of sw_0ld.js, and sw.js has stored an entry since
OldPutOutlivedGenerationReached ==
  /\ state[V4] = "activated" /\ cacheNames = << CACHE_NAME(V4) >>
  /\ \E t, u \in TaskIds :
       /\ tasks[t].worker = V3 /\ tasks[t].pc = "done" /\ tasks[t].put = "orphaned"
       /\ tasks[t].putName = CACHE_NAME(V3)
       /\ tasks[u].worker = V4 /\ tasks[u].pc = "done" /\ tasks[u].put = "stored"

\* the key under which a request is looked up
LookupKey(r) ==
  IF r.branch = "networkFirst" /\ r.worker = V3 THEN "/ui" ELSE r.req.path

\* C19: a lookup made for a GET request finds an entry whenever any
\* generation present holds one under the key, also when the generation of
\* the handling version holds none, and returns an entry held by one of them;
\* a put is always addressed to the generation of the handling version, a
\* handler's caches.open creates no other generation, and a put that
\* completes changes no other generation.
LookupSpansGenerations ==
  [][\A t \in TaskIds :
       /\ (tasks[t].pc = "match" /\ tasks'[t].pc # "match"
           /\ tasks[t].req.method = "GET") =>
            LET held == { n \in Range(cacheNames) :
                            store[n][LookupKey(tasks[t])] # Undefined }
            IN /\ held # {} =>
                    /\ tasks'[t].pc = "done" /\ tasks'[t].resp = tasks'[t].hit
                    /\ \E n \in held : tasks'[t].hit = store[n][LookupKey(tasks[t])]
               /\ held = {} => tasks'[t].hit = Undefined
       /\ tasks'[t].put # "none" => tasks'[t].putName = CACHE_NAME(tasks'[t].worker)
       /\ (tasks[t].pc = "open" /\ tasks'[t].pc # "open") =>
            Range(cacheNames') \subseteq Range(cacheNames) \cup {CACHE_NAME(tasks[t].worker)}
       /\ (tasks[t].put = "pending" /\ tasks'[t].put = "stored") =>
            \A n \in Names \ {CACHE_NAME(tasks[t].worker)} : store'[n] = store[n]]_vars

\* sw.js, activated with the generation of sw_0ld.js left in place, answered
\* /static/app.css without a fetch from the entry that only the generation
\* of sw_0ld.js holds
ForeignHitReached ==
  \E t \in TaskIds :
    /\ AssetGet(tasks[t]) /\ tasks[t].worker = V4 /\ tasks[t].pc = "done"
    /\ tasks[t].req.path = "/static/app.css"
    /\ CACHE_NAME(V3) \in Range(cacheNames) /\ CACHE_NAME(V4) \in Range(cacheNames)
    /\ store[CACHE_NAME(V4)]["/static/app.css"] = Undefined
    /\ store[CACHE_NAME(V3)]["/static/app.css"] # Undefined
    /\ tasks[t].hit = store[CACHE_NAME(V3)]["/static/app.css"]
    /\ tasks[t].resp = tasks[t].hit /\ tasks[t].nFetch = 0 /\ tasks[t].put = "none"

Document(r) == r.pc # "idle" /\ r.branch = "networkFirst"

\* C20: a document request whose network fetch resolves, with whatever
\* status, goes on to the write path and never to the lookup: the caller
\* gets that response and the put that completes replaces the entry stored
\* under the key by it, also when its status is 500; a lookup is made only
\* after the fetch itself was rejected.
ErrorStatusCountsAsSuccess ==
  [][\A t \in TaskIds :
       /\ (Document(tasks[t]) /\ tasks[t].pc = "fetch" /\ tasks'[t].pc # "fetch") =>
            /\ tasks'[t].net.type = "basic" =>
                 (tasks'[t].pc = "open" /\ tasks'[t].fresh = tasks'[t].net)
            /\ tasks'[t].net = NetworkError => tasks'[t].pc = "match"
       /\ (Document(tasks'[t]) /\ tasks'[t].pc = "done" /\ tasks'[t].net.type = "basic") =>
            /\ tasks'[t].resp = tasks'[t].net /\ tasks'[t].hit = Undefined
            /\ tasks'[t].nMatch = 0 /\ tasks'[t].nPut = 1
       /\ (Document(tasks'[t]) /\ tasks'[t].nMatch > 0) => tasks'[t].net = NetworkError
       /\ (Document(tasks[t]) /\ tasks[t].put = "pending" /\ tasks'[t].put = "stored") =>
            store'[tasks[t].putName][tasks[t].putKey] = tasks[t].net]_vars

\* GET /ui was answered by the network with status 500 under sw.js: the
\* caller got the 500 and it has replaced the precached /ui
ErrorOverwroteReached ==
  \E t \in TaskIds :
    /\ DocumentV4(tasks[t]) /\ tasks[t].pc = "done" /\ tasks[t].req.path = "/ui"
    /\ tasks[t].resp = NetResponse("/ui", t, 500)
    /\ tasks[t].put = "stored" /\ tasks[t].nMatch = 0
    /\ store[CACHE_NAME(V4)]["/ui"] = NetResponse("/ui", t, 500)
====
